---- MODULE Spec2Model ----
(***************************************************************************)
(* A model of the GenAi startup-helper backend: Express route handlers     *)
(* that verify a token, call the Natural Language API or the Vertex AI     *)
(* prediction endpoint, write to Firestore and answer with JSON.           *)
(*                                                                         *)
(* Scores and saliences are integers in hundredths (0.3 is 30).            *)
(* A request is handled by an async function: every await is a point where *)
(* another request's handler may run, so every external call is one step.  *)
(***************************************************************************)
EXTENDS Integers, Sequences, FiniteSets, TLC

\* ------------------------------------------------------------------ bounds

\* Number of requests the server receives in one behaviour.
MaxReqs == 2

Reqs == 1 .. MaxReqs

\* Number of requests received when every route and every user is exercised,
\* one request after another.
MaxSerial == 1

\* ------------------------------------------------------------- the clients

Users == {"u1", "u2"}

\* No (or an invalid) bearer token; also req.user before verifyToken ran.
NoUser == "none"

Tokens == Users \cup {NoUser}

\* The free texts a client submits.
Texts == {"t1", "t2"}

\* Predictions the LLM may answer with (temperature > 0: not a function of the prompt).
Predictions == {"p1", "p2"}

NoPrediction == "undefined"

\* A field that is absent from an object or a body: undefined.
Missing == "undefined"

VARIABLES
  req,        \* req[r]: the request as received: route, token, body, file
  pc,         \* pc[r]: where the handling of r stands
  uid,        \* uid[r]: req.user.uid, set by verifyToken
  step,       \* step[r]: number of Natural Language calls that have returned
  partial,    \* partial[r]: results of the current text's calls (locals of the helper)
  analyses,   \* analyses[r]: the analyses of the texts completed so far
  prediction, \* prediction[r]: response.predictions[0]
  docRef,     \* docRef[r]: path of the document this request wrote
  calls,      \* calls[r]: every external call issued for r, in order
  res,        \* res[r]: the response sent
  firestore,  \* path -> document data
  clock,      \* the server timestamp source
  nextId,     \* source of Firestore auto ids
  overlap,    \* overlap[r]: the requests that were in flight while r was
  outcome,    \* outcome[f]: which call for text field f the backend rejects (0: none)
  fan,        \* fan[r][f]: the helper invocation for field f, when run side by side
  topics,     \* the messages published to Pub/Sub, in order: topic and data
  signal,     \* the analyses handed to a heuristic function
  verdict,    \* what the function applied to them returned, or that it threw
  earlier,    \* what the application before the last returned
  auth,       \* Firebase Auth: email -> uid of the user created
  queue       \* the Cloud Tasks queue: the payloads of the tasks created, in order

vars == << req, pc, uid, step, partial, analyses, prediction, docRef, calls, res,
           firestore, clock, nextId, overlap,
                  outcome, fan, topics, signal, verdict,
                  earlier, auth, queue >>

\* --------------------------------------------------- Natural Language API

\* The backend's answer to a text: the API is a function of the document.
DocumentSentiment(text) ==
  IF text = "t1" THEN [score |-> 50, magnitude |-> 80]
                 ELSE [score |-> -50, magnitude |-> 30]

Entities(text) ==
  IF text = "t1"
  THEN << [name |-> "Acme", type |-> "ORGANIZATION", salience |-> 50,
           sentiment |-> [score |-> 40, magnitude |-> 40], metadata |-> ""],
          [name |-> "growth", type |-> "OTHER", salience |-> 25,
           sentiment |-> [score |-> 60, magnitude |-> 60], metadata |-> ""] >>
  ELSE << [name |-> "debt", type |-> "OTHER", salience |-> 35,
           sentiment |-> [score |-> -30, magnitude |-> 30], metadata |-> ""],
          [name |-> "2024", type |-> "NUMBER", salience |-> 5,
           sentiment |-> [score |-> 0, magnitude |-> 0], metadata |-> ""] >>

\* The syntax result: each sentence by the length of its text.
Syntax(text) ==
  IF text = "t1" THEN [sentences |-> << 20, 30 >>] ELSE [sentences |-> << 12 >>]

Categories(text) ==
  IF text = "t1" THEN << [name |-> "/Business", confidence |-> 90] >> ELSE << >>

\* What one client method resolves to for a document.
LanguageResult(method, text) ==
  CASE method = "analyzeSentiment" -> [documentSentiment |-> DocumentSentiment(text)]
    [] method = "analyzeEntities"  -> [entities |-> Entities(text)]
    [] method = "analyzeSyntax"    -> Syntax(text)
    [] method = "classifyText"     -> [categories |-> Categories(text)]

\* ------------------------------------------------ analyses as test inputs

\* An entity of the data model: name, type, salience, sentiment; metadata is
\* the entity's metadata.description, "" when metadata has none, Missing when
\* the entity carries no metadata object.
Entity(name, type, salience, score, metadata) ==
  [name |-> name, type |-> type, salience |-> salience,
   sentiment |-> [score |-> score, magnitude |-> IF score < 0 THEN -score ELSE score],
   metadata |-> metadata]

\* Document sentiment scores, in hundredths.
Scores == {-100, -20, 0, 30, 50, 100}

\* The shapes of analysis: what the entity list, the sentences and the
\* categories are.
Shapes == 0 .. 5

EntityList(l) ==
  CASE l = 0 -> << >>
    [] l = 1 -> Entities("t1")
    [] l = 2 -> Entities("t2")
    [] l = 3 -> << Entity("acme", "ORGANIZATION", 50, 60, ""),
                   Entity("Market", "OTHER", 25, 10, ""),
                   Entity("2024", "NUMBER", 5, 0, Missing) >>
    [] l = 4 -> << Entity("ACME", "ORGANIZATION", 40, -30, ""),
                   Entity("Acme", "PERSON", 30, 20, "") >>
    [] l = 5 -> << >>

SentenceList(l) ==
  CASE l \in {0, 3} -> << >>
    [] l \in {1, 4} -> << 20, 30 >>
    [] l \in {2, 5} -> << 12 >>

CategoryList(l) ==
  CASE l \in {0, 2} -> << >>
    [] l \in {1, 3} -> << [name |-> "/Business", confidence |-> 90] >>
    [] l = 4 -> << [name |-> "/Finance", confidence |-> 60] >>
    [] l = 5 -> << [name |-> "/Finance", confidence |-> 60],
                   [name |-> "/Business", confidence |-> 90] >>

\* The object a helper such as analyzeBusinessIdea returns.
Signal(score, l) ==
  [sentiment |-> [score |-> score, magnitude |-> IF score < 0 THEN -score ELSE score],
   entities |-> EntityList(l),
   syntax |-> [sentences |-> SentenceList(l)],
   categories |-> CategoryList(l)]

Signals == {Signal(score, l) : score \in Scores, l \in Shapes}

\* No function has been applied.
NoVerdict == [fn |-> "none", threw |-> FALSE, value |-> << >>]

\* A function returned v; a function threw a TypeError.
Returned(fn, v) == [fn |-> fn, threw |-> FALSE, value |-> v]

Thrown(fn) == [fn |-> fn, threw |-> TRUE, value |-> << >>]

\* ---------------------------------------------------------------- helpers

Abs(x) == IF x < 0 THEN -x ELSE x

\* The names of a list of entities or categories: list.map(e => e.name).
Names(list) == [i \in DOMAIN list |-> list[i].name]

\* A fixed recommendation, and one that joins names into its text.
Fixed(text) == [text |-> text, names |-> << >>]

Joined(text, names) == [text |-> text, names |-> names]

\* ------------------------------------------------- heuristics of /analyze

\* extractKeyFactors with salience > 0.2 for > 0.3.
extractKeyFactorsLenient(analysis) ==
  LET es == SelectSeq(analysis.entities, LAMBDA e : e.salience > 20)
  IN [i \in DOMAIN es |->
        [factor |-> es[i].name, importance |-> es[i].salience,
         sentiment |-> es[i].sentiment.score]]

extractKeyFactors(analysis) ==
  LET es == SelectSeq(analysis.entities, LAMBDA e : e.salience > 30)
  IN [i \in DOMAIN es |->
        [factor |-> es[i].name, importance |-> es[i].salience,
         sentiment |-> es[i].sentiment.score]]

\* n.metadata.description || 'market size'
extractMarketSize(analysis) ==
  LET numbers == SelectSeq(analysis.entities, LAMBDA e : e.type = "NUMBER")
  IN [i \in DOMAIN numbers |->
        [value |-> numbers[i].name,
         context |-> IF numbers[i].metadata = "" THEN "market size"
                     ELSE numbers[i].metadata]]

extractTrends(analysis) ==
  LET es == SelectSeq(analysis.entities,
                      LAMBDA e : e.salience > 20 /\ e.sentiment.score # 0)
  IN [i \in DOMAIN es |->
        [trend |-> es[i].name, impact |-> es[i].sentiment.score,
         relevance |-> es[i].salience]]

extractChallenges(analysis) ==
  LET es == SelectSeq(analysis.entities, LAMBDA e : e.sentiment.score < 0)
  IN [i \in DOMAIN es |->
        [challenge |-> es[i].name, severity |-> Abs(es[i].sentiment.score),
         relevance |-> es[i].salience]]

extractOpportunities(analysis) ==
  LET es == SelectSeq(analysis.entities,
                      LAMBDA e : e.sentiment.score > 0 /\ e.salience > 20)
  IN [i \in DOMAIN es |->
        [opportunity |-> es[i].name, potential |-> es[i].sentiment.score,
         relevance |-> es[i].salience]]

\* analyzeTrends with salience > 0.4 for > 0.2.
analyzeTrendsStrict(analysis) ==
  LET es == SelectSeq(analysis.entities, LAMBDA e : e.salience > 40)
  IN [i \in DOMAIN es |->
        [trend |-> es[i].name,
         growth |-> IF es[i].sentiment.score > 0 THEN "Growing" ELSE "Declining",
         confidence |-> es[i].salience]]

analyzeTrends(analysis) ==
  LET es == SelectSeq(analysis.entities, LAMBDA e : e.salience > 20)
  IN [i \in DOMAIN es |->
        [trend |-> es[i].name,
         growth |-> IF es[i].sentiment.score > 0 THEN "Growing" ELSE "Declining",
         confidence |-> es[i].salience]]

generateForecast(analysis) ==
  [outlook |-> IF analysis.sentiment.score > 0 THEN "Positive" ELSE "Challenging",
   confidence |-> Abs(analysis.sentiment.score),
   keyDrivers |-> Names(SelectSeq(analysis.entities, LAMBDA e : e.salience > 30))]

generateMarketRecommendations(marketAnalysis, industryAnalysis) ==
  (IF marketAnalysis.sentiment.score > 30
     THEN << Fixed("Consider aggressive market entry strategies") >>
     ELSE IF marketAnalysis.sentiment.score < 0
            THEN << Fixed("Focus on niche market segments initially") >>
            ELSE << >>)
  \o
  (IF Len(extractChallenges(industryAnalysis)) > 0
     THEN << Fixed("Develop mitigation strategies for identified challenges") >>
     ELSE << >>)

\* The object the /analyze handler builds from its three analyses.
MarketAnalysis(marketAnalysis, industryAnalysis, trendsAnalysis) ==
  [marketOverview |->
     [sentiment |-> marketAnalysis.sentiment.score,
      keyFactors |-> extractKeyFactors(marketAnalysis),
      marketSize |-> extractMarketSize(marketAnalysis)],
   industryAnalysis |->
     [trends |-> extractTrends(industryAnalysis),
      challenges |-> extractChallenges(industryAnalysis),
      opportunities |-> extractOpportunities(industryAnalysis)],
   growthPotential |->
     [trends |-> analyzeTrends(trendsAnalysis),
      forecast |-> generateForecast(trendsAnalysis)],
   recommendations |-> generateMarketRecommendations(marketAnalysis, industryAnalysis)]

\* ---------------------------------------------- heuristics of /idea-check

generateRecommendations(analysis) ==
  LET marketEntities ==
        SelectSeq(analysis.entities,
                  LAMBDA e : e.type = "LOCATION" \/ e.type = "ORGANIZATION")
  IN (IF analysis.sentiment.score < 0
        THEN << Fixed("Consider refining the value proposition to address potential concerns") >>
        ELSE << >>)
     \o
     (IF Len(marketEntities) > 0
        THEN << Joined("Focus on key markets/organizations", Names(marketEntities)) >>
        ELSE << >>)
     \o
     (IF Len(analysis.categories) > 0
        THEN << Joined("Consider expanding into related categories",
                       Names(analysis.categories)) >>
        ELSE << >>)

\* The object the /idea-check handler builds; the feasibility score is
\* sentiment.score * 100, kept in hundredths.
IdeaCheck(analysis) ==
  LET es == SelectSeq(analysis.entities, LAMBDA e : e.salience > 10)
  IN [feasibility |->
        [score |-> analysis.sentiment.score * 100,
         explanation |-> IF analysis.sentiment.score > 0 THEN "positive" ELSE "negative"],
      marketPotential |->
        [categories |-> [i \in DOMAIN analysis.categories |->
                           [name |-> analysis.categories[i].name,
                            confidence |-> analysis.categories[i].confidence]],
         keyEntities |-> [i \in DOMAIN es |->
                            [name |-> es[i].name, type |-> es[i].type,
                             salience |-> es[i].salience]]],
      recommendations |-> generateRecommendations(analysis)]

\* ---------------------------------------------- heuristics of /competitors

extractCompetitors(analysis) ==
  LET es == SelectSeq(analysis.entities, LAMBDA e : e.type = "ORGANIZATION")
  IN [i \in DOMAIN es |->
        [name |-> es[i].name, marketPresence |-> es[i].salience,
         sentiment |-> es[i].sentiment.score]]

analyzeStrengths(analysis) ==
  LET es == SelectSeq(analysis.entities, LAMBDA e : e.sentiment.score > 0)
  IN [i \in DOMAIN es |->
        [strength |-> es[i].name, impact |-> es[i].sentiment.score,
         relevance |-> es[i].salience]]

analyzeWeaknesses(analysis) ==
  LET es == SelectSeq(analysis.entities, LAMBDA e : e.sentiment.score < 0)
  IN [i \in DOMAIN es |->
        [weakness |-> es[i].name, impact |-> Abs(es[i].sentiment.score),
         relevance |-> es[i].salience]]

generateCompetitorRecommendations(analysis) ==
  LET competitors == extractCompetitors(analysis)
  IN (IF Len(competitors) > 3
        THEN << Fixed("Market is highly competitive - focus on differentiation") >>
        ELSE IF Len(competitors) < 2
               THEN << Fixed("Consider first-mover advantages in this market") >>
               ELSE << >>)
     \o
     (IF analysis.sentiment.score < -20
        THEN << Fixed("Develop strong competitive advantages before market entry") >>
        ELSE << >>)

\* The object the /competitors handler builds from its three analyses.
CompetitorAnalysis(competitorAnalysis, strengthsAnalysis, weaknessesAnalysis) ==
  [competitorOverview |-> extractCompetitors(competitorAnalysis),
   competitiveAdvantages |-> analyzeStrengths(strengthsAnalysis),
   marketGaps |-> analyzeWeaknesses(weaknessesAnalysis),
   recommendations |-> generateCompetitorRecommendations(competitorAnalysis)]

\* ------------------------------------------------ heuristics of /guidance

\* name.toLowerCase().includes(word), for the names the backend may return.
IncludesLower(name, word) ==
  CASE word = "seed"     -> name \in {"Seed round", "seed capital"}
    [] word = "series a" -> name \in {"Series A"}

determineStage(analysis) ==
  LET stageIndicators ==
        Names(SelectSeq(analysis.entities, LAMBDA e : e.salience > 30))
  IN IF \E i \in DOMAIN stageIndicators : IncludesLower(stageIndicators[i], "seed")
       THEN "Seed"
       ELSE IF \E i \in DOMAIN stageIndicators :
                 IncludesLower(stageIndicators[i], "series a")
              THEN "Series A"
              ELSE "Early Stage"

analyzeFundingNeeds(analysis) ==
  LET numbers == SelectSeq(analysis.entities, LAMBDA e : e.type = "NUMBER")
  IN [amount |-> IF Len(numbers) > 0 THEN numbers[1].name ELSE "Not specified",
      purposes |-> Names(SelectSeq(analysis.entities, LAMBDA e : e.salience > 20))]

extractMetrics(analysis) ==
  LET es == SelectSeq(analysis.entities, LAMBDA e : e.salience > 20)
  IN [i \in DOMAIN es |->
        [metric |-> es[i].name, importance |-> es[i].salience,
         sentiment |-> es[i].sentiment.score]]

generateFundingRecommendations(stageAnalysis, needsAnalysis) ==
  (IF stageAnalysis.sentiment.score < 0
     THEN << Fixed("Consider bootstrapping or angel investment first") >>
     ELSE IF stageAnalysis.sentiment.score > 30
            THEN << Fixed("Ready for institutional investment") >>
            ELSE << >>)
  \o
  (IF Len(analyzeFundingNeeds(needsAnalysis).purposes) < 3
     THEN << Fixed("Develop more detailed funding allocation plan") >>
     ELSE << >>)

\* The three phases are pushed whatever the stage and the needs.
generateTimeline(stageAnalysis, needsAnalysis) ==
  << [phase |-> "Preparation", duration |-> "1-2 months",
      activities |-> << "Document preparation", "Financial modeling",
                        "Pitch deck creation" >>],
     [phase |-> "Outreach", duration |-> "2-3 months",
      activities |-> << "Investor identification", "Initial meetings",
                        "Pitch refinement" >>],
     [phase |-> "Due Diligence", duration |-> "1-2 months",
      activities |-> << "Financial review", "Legal documentation",
                        "Negotiations" >>] >>

\* The object the /guidance handler builds from its three analyses.
Guidance(stageAnalysis, needsAnalysis, metricsAnalysis) ==
  [fundingStrategy |->
     [recommendedStage |-> determineStage(stageAnalysis),
      fundingNeeds |-> analyzeFundingNeeds(needsAnalysis),
      keyMetrics |-> extractMetrics(metricsAnalysis)],
   recommendations |-> generateFundingRecommendations(stageAnalysis, needsAnalysis),
   timeline |-> generateTimeline(stageAnalysis, needsAnalysis)]

\* ------------------------------------------------ heuristics of /strategy

\* generateActionPlan pushing to an array kept between calls: the actions of
\* the call before are still in it.
generateActionPlanShared(goalsAnalysis, resourcesAnalysis) ==
  LET goals == SelectSeq(goalsAnalysis.entities, LAMBDA e : e.salience > 30)
      resources == SelectSeq(resourcesAnalysis.entities, LAMBDA e : e.salience > 20)
      kept == IF verdict.fn = "generateActionPlan" THEN verdict.value ELSE << >>
  IN kept
     \o
     [i \in DOMAIN goals |->
        [objective |-> goals[i].name, priority |-> goals[i].salience,
         timeline |-> IF goals[i].sentiment.score > 0 THEN "Short-term" ELSE "Long-term"]]
     \o
     [i \in DOMAIN resources |->
        [action |-> Joined("Allocate", << resources[i].name >>),
         priority |-> resources[i].salience,
         status |-> IF resources[i].sentiment.score > 0 THEN "Ready"
                    ELSE "Needs preparation"]]

generateActionPlan(goalsAnalysis, resourcesAnalysis) ==
  LET goals == SelectSeq(goalsAnalysis.entities, LAMBDA e : e.salience > 30)
      resources == SelectSeq(resourcesAnalysis.entities, LAMBDA e : e.salience > 20)
  IN [i \in DOMAIN goals |->
        [objective |-> goals[i].name, priority |-> goals[i].salience,
         timeline |-> IF goals[i].sentiment.score > 0 THEN "Short-term" ELSE "Long-term"]]
     \o
     [i \in DOMAIN resources |->
        [action |-> Joined("Allocate", << resources[i].name >>),
         priority |-> resources[i].salience,
         status |-> IF resources[i].sentiment.score > 0 THEN "Ready"
                    ELSE "Needs preparation"]]

generateEntryStrategy(analysis) ==
  [approach |-> IF analysis.sentiment.score > 0 THEN "Aggressive" ELSE "Conservative",
   keyObjectives |-> Names(SelectSeq(analysis.entities, LAMBDA e : e.salience > 30)),
   timeline |-> IF Len(analysis.entities) > 5 THEN "Long-term" ELSE "Short-term"]

\* ------------------------------- heuristics of /investor-match, /readiness

Min(a, b) == IF a < b THEN a ELSE b

\* name.toLowerCase(), for the names of the entity lists.
toLowerCase(name) ==
  CASE name \in {"Acme", "ACME", "acme"} -> "acme"
    [] name \in {"Growth", "growth"}     -> "growth"
    [] name \in {"Market", "market"}     -> "market"
    [] OTHER                             -> name

\* calculateMatchScore comparing the names as written, without toLowerCase.
calculateMatchScoreExact(pitchAnalysis, requirementsAnalysis) ==
  LET pitchEntities == {pitchAnalysis.entities[i].name :
                          i \in DOMAIN pitchAnalysis.entities}
      reqEntities == [i \in DOMAIN requirementsAnalysis.entities |->
                        requirementsAnalysis.entities[i].name]
      matching == {i \in DOMAIN reqEntities : reqEntities[i] \in pitchEntities}
      score == (pitchAnalysis.sentiment.score + 100) * 50 + 1000 * Cardinality(matching)
  IN Min(10000, score)

\* calculateMatchScore returning score, without Math.min.
calculateMatchScoreUncapped(pitchAnalysis, requirementsAnalysis) ==
  LET pitchEntities == {toLowerCase(pitchAnalysis.entities[i].name) :
                          i \in DOMAIN pitchAnalysis.entities}
      reqEntities == [i \in DOMAIN requirementsAnalysis.entities |->
                        toLowerCase(requirementsAnalysis.entities[i].name)]
      matching == {i \in DOMAIN reqEntities : reqEntities[i] \in pitchEntities}
  IN (pitchAnalysis.sentiment.score + 100) * 50 + 1000 * Cardinality(matching)

\* The score in hundredths of a point: (score + 1) * 50, 10 for each entry of
\* the requirements list whose lower-cased name is in the set of the pitch's.
calculateMatchScore(pitchAnalysis, requirementsAnalysis) ==
  LET pitchEntities == {toLowerCase(pitchAnalysis.entities[i].name) :
                          i \in DOMAIN pitchAnalysis.entities}
      reqEntities == [i \in DOMAIN requirementsAnalysis.entities |->
                        toLowerCase(requirementsAnalysis.entities[i].name)]
      matching == {i \in DOMAIN reqEntities : reqEntities[i] \in pitchEntities}
      score == (pitchAnalysis.sentiment.score + 100) * 50 + 1000 * Cardinality(matching)
  IN Min(10000, score)

\* calculateReadinessScore weighting the financial sentiment itself, without + 1.
calculateReadinessScoreSigned(businessAnalysis, financialsAnalysis, teamAnalysis) ==
  LET score == (businessAnalysis.sentiment.score + 100) * 20
               + financialsAnalysis.sentiment.score * 20
               + (teamAnalysis.sentiment.score + 100) * 10
  IN Min(10000, score)

\* The score in hundredths of a point.
calculateReadinessScore(businessAnalysis, financialsAnalysis, teamAnalysis) ==
  LET score == (businessAnalysis.sentiment.score + 100) * 20
               + (financialsAnalysis.sentiment.score + 100) * 20
               + (teamAnalysis.sentiment.score + 100) * 10
  IN Min(10000, score)

\* e.metadata.description where the entity has no metadata: a TypeError.
ReadsMissingMetadata(analysis) ==
  \E i \in DOMAIN analysis.entities :
    analysis.entities[i].type = "NUMBER" /\ analysis.entities[i].metadata = Missing

\* What the function returns when it does not throw; the score in hundredths.
assessFinancialReadiness(analysis) ==
  LET numbers == SelectSeq(analysis.entities, LAMBDA e : e.type = "NUMBER")
  IN [score |-> (analysis.sentiment.score + 100) * 50,
      metrics |-> [i \in DOMAIN numbers |->
                     [metric |-> numbers[i].name,
                      context |-> IF numbers[i].metadata = "" THEN "financial metric"
                                  ELSE numbers[i].metadata]],
      concerns |-> Names(SelectSeq(analysis.entities,
                                   LAMBDA e : e.sentiment.score < -20))]

\* ---------------------------------------------------- heuristics of /swot

\* extractStrengths with >= 0.3 for > 0.3.
extractStrengthsInclusive(ideaAnalysis, marketAnalysis) ==
  LET keyMarketEntities ==
        Names(SelectSeq(marketAnalysis.entities, LAMBDA e : e.salience > 30))
  IN (IF ideaAnalysis.sentiment.score >= 30
        THEN << Fixed("Strong positive market perception potential") >>
        ELSE << >>)
     \o
     (IF Len(keyMarketEntities) > 0
        THEN << Joined("Strong presence in key markets", keyMarketEntities) >>
        ELSE << >>)

extractStrengths(ideaAnalysis, marketAnalysis) ==
  LET keyMarketEntities ==
        Names(SelectSeq(marketAnalysis.entities, LAMBDA e : e.salience > 30))
  IN (IF ideaAnalysis.sentiment.score > 30
        THEN << Fixed("Strong positive market perception potential") >>
        ELSE << >>)
     \o
     (IF Len(keyMarketEntities) > 0
        THEN << Joined("Strong presence in key markets", keyMarketEntities) >>
        ELSE << >>)

extractWeaknesses(ideaAnalysis, competitionAnalysis) ==
  LET competitorStrengths ==
        Names(SelectSeq(competitionAnalysis.entities,
                        LAMBDA e : e.salience > 30 /\ e.sentiment.score > 0))
  IN (IF ideaAnalysis.sentiment.score < 0
        THEN << Fixed("Potential negative market perception") >>
        ELSE << >>)
     \o
     (IF Len(competitorStrengths) > 0
        THEN << Joined("Strong competition in", competitorStrengths) >>
        ELSE << >>)

\* extractOpportunities of the planning routes.
extractOpportunitiesSwot(marketAnalysis) ==
  LET cs == SelectSeq(marketAnalysis.categories, LAMBDA c : c.confidence > 70)
  IN (IF marketAnalysis.sentiment.score > 0
        THEN << Fixed("Favorable market conditions") >>
        ELSE << >>)
     \o
     [i \in DOMAIN cs |-> Joined("High potential in", << cs[i].name >>)]

extractThreats(competitionAnalysis, marketAnalysis) ==
  LET strongCompetitors ==
        Names(SelectSeq(competitionAnalysis.entities,
                        LAMBDA e : e.salience > 30 /\ e.sentiment.score > 50))
  IN (IF marketAnalysis.sentiment.score < -20
        THEN << Fixed("Challenging market conditions") >>
        ELSE << >>)
     \o
     (IF Len(strongCompetitors) > 0
        THEN << Joined("Strong competition from", strongCompetitors) >>
        ELSE << >>)

\* The object the /swot handler builds from its three analyses.
Swot(ideaAnalysis, marketAnalysis, competitionAnalysis) ==
  [strengths |-> extractStrengths(ideaAnalysis, marketAnalysis),
   weaknesses |-> extractWeaknesses(ideaAnalysis, competitionAnalysis),
   opportunities |-> extractOpportunitiesSwot(marketAnalysis),
   threats |-> extractThreats(competitionAnalysis, marketAnalysis)]

\* ---------------------------------------- heuristics of /practice-feedback

\* A JavaScript number: a value in hundredths, or NaN.
Num(n) == [kind |-> "number", value |-> n]

NaN == [kind |-> "NaN", value |-> 0]

\* a / b for a >= 0: 0 / 0 is NaN.
Divide(a, b) ==
  IF b = 0 THEN (IF a = 0 THEN NaN ELSE [kind |-> "Infinity", value |-> 0])
  ELSE Num((100 * a) \div b)

\* sentences.reduce((acc, s) => acc + s.text.content.length, 0)
TotalLength(sentences) ==
  LET acc[i \in 0 .. Len(sentences)] ==
        IF i = 0 THEN 0 ELSE acc[i - 1] + sentences[i]
  IN acc[Len(sentences)]

analyzeStructure(analysis) ==
  LET sentences == analysis.syntax.sentences
  IN [sentenceCount |-> Len(sentences),
      averageLength |-> Divide(TotalLength(sentences), Len(sentences)),
      flow |-> IF Len(sentences) > 10 THEN "Complex" ELSE "Concise"]

\* ------------------------------------------------------------- the routes

NlpRoutes ==
  {"/analyze", "/idea-check", "/api/analyze", "/guidance", "/competitors"}

\* Routes that call the prediction endpoint and then write to Firestore.
LlmRoutes == {"/analyze-idea", "/generate-pitch", "/analyze-resume"}

Routes == NlpRoutes \cup LlmRoutes

\* The routes registered with the verifyToken middleware.
RequiresToken(route) == route \notin {"/api/analyze", "/register"}

\* The routes of the Pub/Sub publisher.
PubSubRoutes == {"/publish-analysis"}

\* Where the handler of a route starts.
Handler(route) ==
  IF route \in NlpRoutes THEN "analyze"
  ELSE IF route \in PubSubRoutes THEN "publish"
  ELSE IF route = "/register" THEN "createUser"
  ELSE IF route = "GET /profile" THEN "getProfile"
  ELSE IF route = "PUT /profile" THEN "updateProfile"
  ELSE IF route = "/startup" THEN "addStartup"
  ELSE IF route = "GET /startups" THEN "getUser"
  ELSE IF route \in {"/schedule-market-analysis", "/schedule-image-generation"}
         THEN "createTask"
  ELSE IF route = "GET /task-status" THEN "taskStatus"
  ELSE "predict"

\* The body fields a handler reads, in the order it analyses them.
Fields(route) ==
  CASE route = "/analyze"        -> << "market", "industry", "trends" >>
    [] route = "/idea-check"     -> << "idea" >>
    [] route = "/api/analyze"    -> << "text" >>
    [] route = "/guidance"       -> << "stage", "needs", "metrics" >>
    [] route = "/competitors"    -> << "competitors", "strengths", "weaknesses" >>
    [] route = "/analyze-idea"   -> << "idea", "industry", "targetMarket" >>
    [] route = "/generate-pitch" -> << "idea", "plan", "marketData" >>
    [] route = "/analyze-resume" -> << >>
    [] route = "/publish-analysis" -> << "type", "data" >>

\* The client methods the route's helper awaits for one text, in order.
Methods(route) ==
  IF route = "/api/analyze"
  THEN << "analyzeSentiment", "analyzeSyntax", "analyzeEntities" >>
  ELSE << "analyzeSentiment", "analyzeEntities", "analyzeSyntax", "classifyText" >>

\* The object the helper returns from the results of its awaits.
Assemble(route, results) ==
  IF route = "/api/analyze"
  THEN [sentiment |-> results[1].documentSentiment,
        syntax |-> results[2],
        entities |-> results[3].entities]
  ELSE [sentiment |-> results[1].documentSentiment,
        entities |-> results[2].entities,
        syntax |-> results[3],
        categories |-> results[4].categories]

\* The static message of the handler's catch block.
ErrorMessage(route) ==
  CASE route = "/analyze"        -> "Failed to analyze market"
    [] route = "/idea-check"     -> "Failed to analyze idea"
    [] route = "/api/analyze"    -> "Failed to analyze text"
    [] route = "/guidance"       -> "Failed to generate funding guidance"
    [] route = "/competitors"    -> "Failed to analyze competitors"
    [] route = "/analyze-idea"   -> "Failed to analyze startup idea"
    [] route = "/generate-pitch" -> "Failed to generate pitch deck"
    [] route = "/analyze-resume" -> "Failed to analyze resume"
    [] route = "/publish-analysis" -> "Failed to publish message"
    [] route = "/register"         -> "Failed to register user"
    [] route = "GET /profile"      -> "Failed to fetch profile"
    [] route = "PUT /profile"      -> "Failed to update profile"
    [] route = "/startup"          -> "Failed to save startup"
    [] route = "GET /startups"     -> "Failed to fetch startups"
    [] route = "/schedule-market-analysis"  -> "Failed to schedule market analysis"
    [] route = "/schedule-image-generation" -> "Failed to schedule image generation"
    [] route = "GET /task-status"  -> "Failed to get task status"

NoResponse == [status |-> 0, body |-> [error |-> ""]]

Unauthorized == [status |-> 401, body |-> [error |-> "Unauthorized"]]

NoFileProvided == [status |-> 400, body |-> [error |-> "No resume file provided"]]

InvalidType == [status |-> 400, body |-> [error |-> "Invalid analysis type"]]

\* A catch block that passes the backend's own error text on to the client.
ErrorResponseLeaky(route) ==
  [status |-> 500, body |-> [error |-> "UNAVAILABLE: upstream request failed"]]

\* catch (error) { res.status(500).json({ error: <message> }) }
ErrorResponse(route) == [status |-> 500, body |-> [error |-> ErrorMessage(route)]]

\* res.json(<object>) of an NLP route, from the analyses of its texts.
NlpBody(route, as) ==
  CASE route = "/analyze"     -> [analysis |-> MarketAnalysis(as[1], as[2], as[3])]
    [] route = "/idea-check"  -> IdeaCheck(as[1])
    [] route = "/api/analyze" -> as[1]
    [] route = "/guidance"    -> [guidance |-> Guidance(as[1], as[2], as[3])]
    [] route = "/competitors" -> [analysis |-> CompetitorAnalysis(as[1], as[2], as[3])]

\* res.json(<object>) of an LLM route: the prediction, and for /generate-pitch
\* the id of the document written.
LlmBody(route, p, ref) ==
  IF route = "/generate-pitch"
  THEN [deckId |-> ref.id, content |-> p]
  ELSE [analysis |-> p]

\* ------------------------------------------------------------ the requests

NoFile == "nofile"

NoDoc == << >>

Idle == [route |-> "none", token |-> NoUser, body |-> << >>, file |-> NoFile]

\* Two request bodies per route: the texts alternate over the fields.
Body(route, k) ==
  [i \in DOMAIN Fields(route) |-> IF (i + k) % 2 = 0 THEN "t1" ELSE "t2"]

Bodies(route) == {Body(route, k) : k \in 1 .. 2}

\* multer's req.file: only /analyze-resume takes an upload.
Files(route) == IF route = "/analyze-resume" THEN {"t1", NoFile} ELSE {NoFile}

\* One external call as logged: which client, which method, for which body
\* field or collection, and whether it resolved (ok) or rejected.
Call(api, method, field, ok) ==
  [api |-> api, method |-> method, field |-> field, ok |-> ok]

InitServer ==
  /\ req = [r \in Reqs |-> Idle]
  /\ pc = [r \in Reqs |-> "idle"]
  /\ uid = [r \in Reqs |-> NoUser]
  /\ step = [r \in Reqs |-> 0]
  /\ partial = [r \in Reqs |-> << >>]
  /\ analyses = [r \in Reqs |-> << >>]
  /\ prediction = [r \in Reqs |-> NoPrediction]
  /\ docRef = [r \in Reqs |-> NoDoc]
  /\ calls = [r \in Reqs |-> << >>]
  /\ res = [r \in Reqs |-> NoResponse]
  /\ firestore = << >>
  /\ clock = 0
  /\ nextId = 1
  /\ overlap = [r \in Reqs |-> {}]
  /\ outcome = << >>
  /\ fan = [r \in Reqs |-> << >>]
  /\ topics = << >>
  /\ auth = << >>
  /\ queue = << >>

\* The server has started; no heuristic function is under test.
Init ==
  /\ InitServer
  /\ signal = << >>
  /\ verdict = NoVerdict
  /\ earlier = NoVerdict

\* Where Express hands the request first: the middleware or the handler.
Entry(route) ==
  IF RequiresToken(route) THEN "verify" ELSE Handler(route)

\* The requests being handled: received and not yet answered.
InFlight == {q \in Reqs : pc[q] \notin {"idle", "done"}}

\* A server with a response cache: a request equal to one already answered 200
\* is answered from the cache, and no handler runs.
ReceiveCached(r, route, token, body, file) ==
  LET same == {q \in Reqs : /\ req[q].route = route
                             /\ req[q].body = body
                             /\ res[q].status = 200}
  IN /\ pc[r] = "idle"
     /\ \A q \in Reqs : q < r => pc[q] # "idle"
     /\ req' = [req EXCEPT ![r] = [route |-> route, token |-> token,
                                   body |-> body, file |-> file]]
     /\ IF same = {}
          THEN /\ pc' = [pc EXCEPT ![r] = Entry(route)]
               /\ res' = res
          ELSE /\ pc' = [pc EXCEPT ![r] = "done"]
               /\ res' = [res EXCEPT ![r] = res[CHOOSE q \in same : TRUE]]
     /\ UNCHANGED << uid, step, partial, analyses, prediction, docRef, calls,
                     firestore, clock, nextId, fan, topics, signal, verdict,
                  earlier, auth, queue >>

\* The server receives a request (requests are numbered in order of arrival).
Receive(r, route, token, body, file) ==
  /\ pc[r] = "idle"
  /\ \A q \in Reqs : q < r => pc[q] # "idle"
  /\ req' = [req EXCEPT ![r] = [route |-> route, token |-> token,
                                body |-> body, file |-> file]]
  /\ pc' = [pc EXCEPT ![r] = Entry(route)]
  /\ UNCHANGED << uid, step, partial, analyses, prediction, docRef, calls, res,
                  firestore, clock, nextId, fan, topics, signal, verdict,
                  earlier, auth, queue >>

\* A request arrives; nothing is recorded about the requests in flight.
Arrive(r, route, token, body, file) ==
  /\ Receive(r, route, token, body, file)
  /\ overlap' = overlap
  /\ outcome' = outcome

\* A request arrives, and the requests it overlaps with are recorded.
ArriveAmong(r, route, token, body, file) ==
  /\ Receive(r, route, token, body, file)
  /\ overlap' = [q \in Reqs |->
                   IF q = r THEN InFlight
                   ELSE IF q \in InFlight THEN overlap[q] \cup {r} ELSE overlap[q]]
  /\ outcome' = outcome

\* The verifyToken middleware: a valid token resolves to req.user.uid and the
\* handler runs; otherwise the request is answered 401 and the handler never runs.
verifyToken(r) ==
  /\ pc[r] = "verify"
  /\ IF req[r].token \in Users
       THEN /\ uid' = [uid EXCEPT ![r] = req[r].token]
            /\ pc' = [pc EXCEPT ![r] = Handler(req[r].route)]
            /\ res' = res
       ELSE /\ res' = [res EXCEPT ![r] = Unauthorized]
            /\ pc' = [pc EXCEPT ![r] = "done"]
            /\ uid' = uid
  /\ UNCHANGED << req, step, partial, analyses, prediction, docRef, calls,
                  firestore, clock, nextId, overlap,
                  outcome, fan, topics, signal, verdict,
                  earlier, auth, queue >>

\* The helper with local recovery: a rejected call is logged and the helper
\* carries on with the next call as if it had resolved.
LanguageCallRecovering(r, ok) ==
  LET route == req[r].route
      nm == Len(Methods(route))
      fi == (step[r] \div nm) + 1
      mi == (step[r] % nm) + 1
      field == Fields(route)[fi]
      method == Methods(route)[mi]
      results == Append(partial[r], LanguageResult(method, req[r].body[fi]))
      done == Append(analyses[r], Assemble(route, results))
  IN /\ pc[r] = "analyze"
     /\ calls' = [calls EXCEPT ![r] = Append(@, Call("language", method, field, ok))]
     /\ step' = [step EXCEPT ![r] = @ + 1]
     /\ IF mi < nm
          THEN /\ partial' = [partial EXCEPT ![r] = results]
               /\ UNCHANGED << analyses, res, pc >>
          ELSE /\ partial' = [partial EXCEPT ![r] = << >>]
               /\ analyses' = [analyses EXCEPT ![r] = done]
               /\ IF fi < Len(Fields(route))
                    THEN UNCHANGED << res, pc >>
                    ELSE /\ res' = [res EXCEPT ![r] =
                                      [status |-> 200,
                                       body |-> NlpBody(route, done)]]
                         /\ pc' = [pc EXCEPT ![r] = "done"]
     /\ UNCHANGED << req, uid, prediction, docRef, firestore, clock, nextId, overlap,
                  outcome, fan, topics, signal, verdict,
                  earlier, auth, queue >>

\* The helper with its document in a module-level variable: each call analyses
\* the text of the request that entered the helper last.
LanguageCallShared(r, ok) ==
  LET route == req[r].route
      nm == Len(Methods(route))
      fi == (step[r] \div nm) + 1
      mi == (step[r] % nm) + 1
      field == Fields(route)[fi]
      method == Methods(route)[mi]
      last == CHOOSE q \in InFlight : \A p \in InFlight : p <= q
      text == IF req[last].route = route THEN req[last].body[fi] ELSE req[r].body[fi]
      results == Append(partial[r], LanguageResult(method, text))
      done == Append(analyses[r], Assemble(route, results))
  IN /\ pc[r] = "analyze"
     /\ calls' = [calls EXCEPT ![r] = Append(@, Call("language", method, field, ok))]
     /\ IF ~ok
          THEN /\ res' = [res EXCEPT ![r] = ErrorResponse(route)]
               /\ pc' = [pc EXCEPT ![r] = "done"]
               /\ UNCHANGED << step, partial, analyses >>
          ELSE /\ step' = [step EXCEPT ![r] = @ + 1]
               /\ IF mi < nm
                    THEN /\ partial' = [partial EXCEPT ![r] = results]
                         /\ UNCHANGED << analyses, res, pc >>
                    ELSE /\ partial' = [partial EXCEPT ![r] = << >>]
                         /\ analyses' = [analyses EXCEPT ![r] = done]
                         /\ IF fi < Len(Fields(route))
                              THEN UNCHANGED << res, pc >>
                              ELSE /\ res' = [res EXCEPT ![r] =
                                                [status |-> 200,
                                                 body |-> NlpBody(route, done)]]
                                   /\ pc' = [pc EXCEPT ![r] = "done"]
     /\ UNCHANGED << req, uid, prediction, docRef, firestore, clock, nextId, overlap,
                     outcome, fan, topics, signal, verdict,
                  earlier, auth, queue >>

\* One await of the helper (analyzeMarketData, analyzeBusinessIdea, analyzeText):
\* the call is issued; it resolves or rejects. A rejection unwinds to the
\* handler's catch. The return of the last call of the last text runs the rest
\* of the handler, which builds the object and sends it.
LanguageCall(r, ok) ==
  LET route == req[r].route
      nm == Len(Methods(route))
      fi == (step[r] \div nm) + 1
      mi == (step[r] % nm) + 1
      field == Fields(route)[fi]
      method == Methods(route)[mi]
      results == Append(partial[r], LanguageResult(method, req[r].body[fi]))
      done == Append(analyses[r], Assemble(route, results))
  IN /\ pc[r] = "analyze"
     /\ calls' = [calls EXCEPT ![r] = Append(@, Call("language", method, field, ok))]
     /\ IF ~ok
          THEN /\ res' = [res EXCEPT ![r] = ErrorResponse(route)]
               /\ pc' = [pc EXCEPT ![r] = "done"]
               /\ UNCHANGED << step, partial, analyses >>
          ELSE /\ step' = [step EXCEPT ![r] = @ + 1]
               /\ IF mi < nm
                    THEN /\ partial' = [partial EXCEPT ![r] = results]
                         /\ UNCHANGED << analyses, res, pc >>
                    ELSE /\ partial' = [partial EXCEPT ![r] = << >>]
                         /\ analyses' = [analyses EXCEPT ![r] = done]
                         /\ IF fi < Len(Fields(route))
                              THEN UNCHANGED << res, pc >>
                              ELSE /\ res' = [res EXCEPT ![r] =
                                                [status |-> 200,
                                                 body |-> NlpBody(route, done)]]
                                   /\ pc' = [pc EXCEPT ![r] = "done"]
     /\ UNCHANGED << req, uid, prediction, docRef, firestore, clock, nextId, overlap,
                  outcome, fan, topics, signal, verdict,
                  earlier, auth, queue >>

\* ------------------------------------------- the analysis routes on their own

\* A client submits a request to one of the routes of market.js, with the
\* token of a user or without a valid one.
Submit(r) ==
  \E route \in {"/analyze", "/idea-check", "/api/analyze"}, token \in {"u1", NoUser} :
    \E body \in Bodies(route) :
      Arrive(r, route, token, body, NoFile)

Analyze(r) == \E ok \in BOOLEAN : LanguageCall(r, ok)

Next == \E r \in Reqs : Submit(r) \/ verifyToken(r) \/ Analyze(r)

Spec == Init /\ [][Next]_vars

\* ------------------------------------------------ prediction and Firestore

\* A document path: collection/user, or collection/user/sub/id (id 0: none).
Path(collection, user, sub, id) ==
  [collection |-> collection, user |-> user, sub |-> sub, id |-> id]

\* set(data, { merge: true }): the fields given replace the document's.
Merge(old, new) ==
  [f \in DOMAIN old \cup DOMAIN new |-> IF f \in DOMAIN new THEN new[f] ELSE old[f]]

Exists(db, path) == path \in DOMAIN db

\* An add that replaces the user's documents of the collection by the new one.
AddReplacing(db, path, data) ==
  LET kept == {q \in DOMAIN db :
                 ~(q.collection = path.collection /\ q.user = path.user)}
  IN [q \in kept \cup {path} |-> IF q = path THEN data ELSE db[q]]

\* collection(..).doc(uid).collection(..).add(data): a new document under a fresh id.
Add(db, path, data) == (path :> data) @@ db

\* collection(..).doc(uid).set(data, { merge: true })
SetMerge(db, path, data) ==
  IF Exists(db, path)
  THEN [db EXCEPT ![path] = Merge(@, data)]
  ELSE (path :> data) @@ db

\* The document an LLM route writes, and where.
WritesWithAdd(route) == route \in {"/analyze-idea", "/generate-pitch"}

\* Every write of a route goes to one document per user: doc(..).set()
\* in place of add().
WritePathFixed(route, user, id) ==
  CASE route = "/analyze-idea"   -> Path("startup_analyses", user, "ideas", 1)
    [] route = "/generate-pitch" -> Path("pitch_decks", user, "decks", 1)
    [] route = "/analyze-resume" -> Path("skill_profiles", user, "", 0)

WritePath(route, user, id) ==
  CASE route = "/analyze-idea"   -> Path("startup_analyses", user, "ideas", id)
    [] route = "/generate-pitch" -> Path("pitch_decks", user, "decks", id)
    [] route = "/analyze-resume" -> Path("skill_profiles", user, "", 0)

WriteData(route, now, p, body) ==
  CASE route = "/analyze-idea" ->
         [timestamp |-> now, analysis |-> p, input |-> body]
    [] route = "/generate-pitch" ->
         [timestamp |-> now, content |-> p, input |-> body, format |-> "markdown"]
    [] route = "/analyze-resume" ->
         [lastUpdated |-> now, skills |-> p, resumeAnalysis |-> TRUE]

\* A write that never reaches the database.
WriteDropped(db, route, user, id, now, p, body) == db

\* The write of the handler, applied by Firestore.
Write(db, route, user, id, now, p, body) ==
  IF WritesWithAdd(route)
  THEN Add(db, WritePath(route, user, id), WriteData(route, now, p, body))
  ELSE SetMerge(db, WritePath(route, user, id), WriteData(route, now, p, body))

\* if (!req.file) return res.status(400)...: before anything is awaited.
RejectUpload(r) ==
  /\ pc[r] = "predict"
  /\ req[r].route = "/analyze-resume"
  /\ req[r].file = NoFile
  /\ res' = [res EXCEPT ![r] = NoFileProvided]
  /\ pc' = [pc EXCEPT ![r] = "done"]
  /\ UNCHANGED << req, uid, step, partial, analyses, prediction, docRef, calls,
                  firestore, clock, nextId, overlap,
                  outcome, fan, topics, signal, verdict,
                  earlier, auth, queue >>

\* await predictionClient.predict(request): resolves with a prediction or rejects.
Predict(r, ok, p) ==
  /\ pc[r] = "predict"
  /\ req[r].route = "/analyze-resume" => req[r].file # NoFile
  /\ calls' = [calls EXCEPT ![r] = Append(@, Call("prediction", "predict", "prompt", ok))]
  /\ IF ok
       THEN /\ prediction' = [prediction EXCEPT ![r] = p]
            /\ pc' = [pc EXCEPT ![r] = "store"]
            /\ res' = res
       ELSE /\ res' = [res EXCEPT ![r] = ErrorResponse(req[r].route)]
            /\ pc' = [pc EXCEPT ![r] = "done"]
            /\ prediction' = prediction
  /\ UNCHANGED << req, uid, step, partial, analyses, docRef,
                  firestore, clock, nextId, overlap,
                  outcome, fan, topics, signal, verdict,
                  earlier, auth, queue >>

\* The write issued without await: its rejection is not seen by the handler,
\* which goes on to send the result.
StoreUnawaited(r, ok) ==
  LET route == req[r].route
      id == IF route \in {"/analyze-idea", "/generate-pitch"} THEN nextId ELSE 0
      path == IF route = "/analyze-idea" THEN Path("startup_analyses", uid[r], "ideas", id)
              ELSE IF route = "/generate-pitch" THEN Path("pitch_decks", uid[r], "decks", id)
              ELSE Path("skill_profiles", uid[r], "", 0)
  IN /\ pc[r] = "store"
     /\ calls' = [calls EXCEPT ![r] =
                    Append(@, Call("firestore", "write", path.collection, ok))]
     /\ firestore' = IF ok THEN (path :> [result |-> prediction[r]]) @@ firestore
                      ELSE firestore
     /\ clock' = IF ok THEN clock + 1 ELSE clock
     /\ nextId' = IF ok /\ id # 0 THEN nextId + 1 ELSE nextId
     /\ docRef' = [docRef EXCEPT ![r] = path]
     /\ pc' = [pc EXCEPT ![r] = "respond"]
     /\ UNCHANGED << req, uid, step, partial, analyses, prediction, res, overlap,
                     outcome, fan, topics, signal, verdict,
                  earlier, auth, queue >>

\* await ...add({...}) or await ...set({...}, { merge: true }): Firestore applies
\* the write and the promise resolves, or it rejects and nothing is written.
Store(r, ok) ==
  LET route == req[r].route
      id == IF WritesWithAdd(route) THEN nextId ELSE 0
  IN /\ pc[r] = "store"
     /\ calls' = [calls EXCEPT ![r] =
                    Append(@, Call("firestore",
                                   IF WritesWithAdd(route) THEN "add" ELSE "set",
                                   WritePath(route, uid[r], 0).collection, ok))]
     /\ IF ok
          THEN /\ firestore' = Write(firestore, route, uid[r], id, clock + 1,
                                     prediction[r], req[r].body)
               /\ clock' = clock + 1
               /\ nextId' = IF WritesWithAdd(route) THEN nextId + 1 ELSE nextId
               /\ docRef' = [docRef EXCEPT ![r] = WritePath(route, uid[r], id)]
               /\ pc' = [pc EXCEPT ![r] = "respond"]
               /\ res' = res
          ELSE /\ res' = [res EXCEPT ![r] = ErrorResponse(route)]
               /\ pc' = [pc EXCEPT ![r] = "done"]
               /\ UNCHANGED << firestore, clock, nextId, docRef >>
     /\ UNCHANGED << req, uid, step, partial, analyses, prediction, overlap,
                     outcome, fan, topics, signal, verdict,
                  earlier, auth, queue >>

\* res.json({ analysis }): the rest of the handler after the write resolved.
Respond(r) ==
  /\ pc[r] = "respond"
  /\ res' = [res EXCEPT ![r] = [status |-> 200,
                                body |-> LlmBody(req[r].route, prediction[r],
                                                 docRef[r])]]
  /\ pc' = [pc EXCEPT ![r] = "done"]
  /\ UNCHANGED << req, uid, step, partial, analyses, prediction, docRef, calls,
                  firestore, clock, nextId, overlap,
                  outcome, fan, topics, signal, verdict,
                  earlier, auth, queue >>

\* ------------------------------- the routes that persist, and one that does not

StoreSpecRoutes == LlmRoutes \cup {"/idea-check"}

SubmitAny(r) ==
  \E route \in StoreSpecRoutes, token \in {"u1", NoUser} :
    \E body \in Bodies(route), file \in Files(route) :
      Arrive(r, route, token, body, file)

Generate(r) == \E ok \in BOOLEAN, p \in Predictions : Predict(r, ok, p)

Persist(r) == \E ok \in BOOLEAN : Store(r, ok)

NextStore ==
  \E r \in Reqs :
    \/ SubmitAny(r)
    \/ verifyToken(r)
    \/ Analyze(r)
    \/ RejectUpload(r)
    \/ Generate(r)
    \/ Persist(r)
    \/ Respond(r)

SpecStore == Init /\ [][NextStore]_vars

\* ----------------------------------- concurrent writers of one user's documents

SubmitWrite(r) ==
  \E route \in {"/analyze-idea", "/analyze-resume"}, token \in {"u1", NoUser} :
    \E body \in Bodies(route), file \in Files(route) :
      ArriveAmong(r, route, token, body, file)

NextRace ==
  \E r \in Reqs :
    \/ SubmitWrite(r)
    \/ verifyToken(r)
    \/ RejectUpload(r)
    \/ Generate(r)
    \/ Persist(r)
    \/ Respond(r)

SpecRace == Init /\ [][NextRace]_vars

\* ------------------------------------- every route, one request after another

\* A client of any user submits to any route once the server is idle.
SubmitAlone(r) ==
  /\ r <= MaxSerial
  /\ InFlight = {}
  /\ \E route \in Routes, token \in Tokens :
       \E body \in Bodies(route), file \in Files(route) :
         Arrive(r, route, token, body, file)

NextAll ==
  \E r \in Reqs :
    \/ SubmitAlone(r)
    \/ verifyToken(r)
    \/ Analyze(r)
    \/ RejectUpload(r)
    \/ Generate(r)
    \/ Persist(r)
    \/ Respond(r)

SpecAll == Init /\ [][NextAll]_vars

\* ------------------------------- the texts of one request, side by side

\* The route whose three texts are analysed.
FanOutRoute == "/analyze"

\* What the backend does with the calls for one body: for each text field, 0
\* when every call for it resolves, or the number of the call that rejects.
Outcomes == [DOMAIN Fields(FanOutRoute) -> 0 .. Len(Methods(FanOutRoute))]

\* Call m for field f resolves.
Resolves(f, m) == outcome[f] # m

\* A request arrives at the handler as written; the backend's outcomes are fixed.
SubmitInTurn ==
  /\ \E body \in Bodies(FanOutRoute) : Receive(1, FanOutRoute, "u1", body, NoFile)
  /\ outcome' \in Outcomes
  /\ overlap' = overlap

\* The handler as written: one text after the other, one call after the other.
AnalyzeInTurn ==
  LET nm == Len(Methods(FanOutRoute))
  IN /\ pc[1] = "analyze"
     /\ LanguageCall(1, Resolves((step[1] \div nm) + 1, (step[1] % nm) + 1))

\* The same request arrives at the handler that runs its helpers side by side.
SubmitFanOut ==
  /\ pc[1] = "done"
  /\ Arrive(2, req[1].route, req[1].token, req[1].body, NoFile)

\* The helper is invoked for every text field before anything is awaited.
FanOutStart(r) ==
  /\ pc[r] = "analyze"
  /\ fan[r] = << >>
  /\ fan' = [fan EXCEPT ![r] =
               [f \in DOMAIN Fields(req[r].route) |->
                  [step |-> 0, partial |-> << >>, rejected |-> FALSE]]]
  /\ UNCHANGED << req, pc, uid, step, partial, analyses, prediction, docRef, calls,
                  res, firestore, clock, nextId, overlap, outcome, topics, signal, verdict,
                  earlier, auth, queue >>

\* The helper invocation for field f issues its next call, which resolves or
\* rejects: fan[r][f] counts the calls that resolved and notes a rejection. The
\* invocations run on whether or not a response has been sent.
FanOutCall(r, f) ==
  LET route == req[r].route
      h == fan[r][f]
      mi == h.step + 1
      ok == Resolves(f, mi)
      method == Methods(route)[mi]
      results == Append(h.partial, LanguageResult(method, req[r].body[f]))
  IN /\ f \in DOMAIN fan[r]
     /\ ~h.rejected
     /\ h.step < Len(Methods(route))
     /\ fan' = [fan EXCEPT ![r][f] =
                  IF ok THEN [step |-> mi, partial |-> results, rejected |-> FALSE]
                        ELSE [h EXCEPT !.rejected = TRUE]]
     /\ UNCHANGED << req, pc, uid, step, partial, analyses, prediction, docRef, calls,
                     res, firestore, clock, nextId, overlap, outcome, topics, signal, verdict,
                  earlier, auth, queue >>

\* Fan-in: once an invocation has rejected the handler's catch may answer; once
\* all have returned the handler combines their results, in the order of the
\* fields, and answers.
FanIn(r) ==
  LET route == req[r].route
      rejected == \E f \in DOMAIN fan[r] : fan[r][f].rejected
      complete == \A f \in DOMAIN fan[r] : fan[r][f].step = Len(Methods(route))
  IN /\ pc[r] = "analyze"
     /\ fan[r] # << >>
     /\ rejected \/ complete
     /\ res' = [res EXCEPT ![r] =
                  IF rejected
                  THEN ErrorResponse(route)
                  ELSE [status |-> 200,
                        body |-> NlpBody(route,
                                         [f \in DOMAIN fan[r] |->
                                            Assemble(route, fan[r][f].partial)])]]
     /\ pc' = [pc EXCEPT ![r] = "done"]
     /\ UNCHANGED << req, uid, step, partial, analyses, prediction, docRef, calls,
                     firestore, clock, nextId, overlap, outcome, fan, topics, signal, verdict,
                  earlier, auth, queue >>

NextFanOut ==
  \/ SubmitInTurn
  \/ verifyToken(1)
  \/ AnalyzeInTurn
  \/ SubmitFanOut
  \/ verifyToken(2)
  \/ FanOutStart(2)
  \/ \E f \in DOMAIN Fields(FanOutRoute) : FanOutCall(2, f)
  \/ FanIn(2)

SpecFanOut == Init /\ [][NextFanOut]_vars

\* ------------------------------------ requests to /competitors, overlapping

SubmitBeside(r) ==
  \E body \in Bodies("/competitors"), token \in {"u1", NoUser} :
    ArriveAmong(r, "/competitors", token, body, NoFile)

NextBeside == \E r \in Reqs : SubmitBeside(r) \/ verifyToken(r) \/ Analyze(r)

SpecBeside == Init /\ [][NextBeside]_vars

\* ------------------------------------------------- Pub/Sub: /publish-analysis

\* const TOPICS = { MARKET_ANALYSIS: .., IMAGE_GENERATION: .., COMPETITOR_ANALYSIS: .. }
TOPICS ==
  [k \in {"MARKET_ANALYSIS", "IMAGE_GENERATION", "COMPETITOR_ANALYSIS"} |->
     CASE k = "MARKET_ANALYSIS"     -> "market-analysis"
       [] k = "IMAGE_GENERATION"    -> "image-generation"
       [] k = "COMPETITOR_ANALYSIS" -> "competitor-analysis"]

\* The values of req.body.type the clients send.
Types == {Missing, "", "market_analysis", "Image_Generation", "swot"}

\* type.toUpperCase(), for the strings the clients send.
toUpperCase(type) ==
  CASE type = ""                 -> ""
    [] type = "market_analysis"  -> "MARKET_ANALYSIS"
    [] type = "Image_Generation" -> "IMAGE_GENERATION"
    [] type = "swot"             -> "SWOT"

\* topicName is defined: type is a string and TOPICS has its upper-case form.
HasTopic(type) == type # Missing /\ toUpperCase(type) \in DOMAIN TOPICS

\* The values of req.body.data: with and without a userId field of its own.
PublishData == {"d1", "d2"}

DataFields(d) ==
  IF d = "d1" THEN [text |-> "t1"] ELSE [text |-> "t2", userId |-> "u2"]

\* { userId: req.user.uid, ...data, timestamp: Date.now() }
MessageData(user, d, now) ==
  Merge(Merge([userId |-> user], DataFields(d)), [timestamp |-> now])

\* The handler up to its first await: type.toUpperCase() throws a TypeError when
\* type is undefined, and the catch answers 500; a type without topic is
\* answered 400.
RejectPublish(r) ==
  /\ pc[r] = "publish"
  /\ req[r].body[1] = Missing \/ ~HasTopic(req[r].body[1])
  /\ res' = [res EXCEPT ![r] = IF req[r].body[1] = Missing
                                 THEN ErrorResponse(req[r].route)
                                 ELSE InvalidType]
  /\ pc' = [pc EXCEPT ![r] = "done"]
  /\ UNCHANGED << req, uid, step, partial, analyses, prediction, docRef, calls,
                  firestore, clock, nextId, overlap, outcome, fan, topics, signal, verdict,
                  earlier, auth, queue >>

\* await topic.publish(..) resolves or rejects. After it resolves the handler
\* evaluates admin.firestore(), and admin is not declared in the module: the
\* ReferenceError is caught and answered 500, as a rejection is.
Publish(r, ok) ==
  LET topicName == TOPICS[toUpperCase(req[r].body[1])]
  IN /\ pc[r] = "publish"
     /\ req[r].body[1] # Missing
     /\ HasTopic(req[r].body[1])
     /\ calls' = [calls EXCEPT ![r] = Append(@, Call("pubsub", "publish", topicName, ok))]
     /\ topics' = IF ok
                    THEN Append(topics, [topic |-> topicName,
                                         data |-> MessageData(uid[r], req[r].body[2], clock)])
                    ELSE topics
     /\ res' = [res EXCEPT ![r] = ErrorResponse(req[r].route)]
     /\ pc' = [pc EXCEPT ![r] = "done"]
     /\ UNCHANGED << req, uid, step, partial, analyses, prediction, docRef,
                     firestore, clock, nextId, overlap, outcome, fan,
                     signal, verdict,
                  earlier, auth, queue >>

\* ------------------------------------------- requests that lack a field

\* The bodies sent to a route, those lacking a field or leaving it empty included.
LackingBodies(route) ==
  CASE route = "/analyze-idea" ->
         {<< idea, "t1", "t2" >> : idea \in {Missing, "", "t1"}}
    [] route = "/publish-analysis" ->
         {<< type, d >> : type \in Types, d \in PublishData}
    [] route = "/analyze-resume" -> {<< >>}

SubmitLacking(r) ==
  \E route \in {"/analyze-idea", "/publish-analysis", "/analyze-resume"} :
    \E body \in LackingBodies(route), file \in Files(route) :
      Arrive(r, route, "u1", body, file)

NextInput ==
  \E r \in Reqs :
    \/ SubmitLacking(r)
    \/ verifyToken(r)
    \/ RejectUpload(r)
    \/ Generate(r)
    \/ Persist(r)
    \/ Respond(r)
    \/ RejectPublish(r)
    \/ \E ok \in BOOLEAN : Publish(r, ok)

SpecInput == Init /\ [][NextInput]_vars

\* ----------------------------------- the heuristic functions on their own

\* The analyses a function is applied to: two of any shape, a third without
\* entities.
Held == Signals \X Signals \X {Signal(score, 0) : score \in Scores}

InitClassifier ==
  /\ InitServer
  /\ signal \in Held
  /\ verdict = NoVerdict
  /\ earlier = NoVerdict

\* The second application that is made after a first: the same function
\* again, or the 0.2 filter after the 0.3 filter.
Follows(first, second) ==
  \/ second = first
  \/ first = "extractKeyFactors" /\ second = "analyzeTrends"

\* A function is applied to the analyses held: a first time, or a second
\* time after the first returned.
Apply(v) ==
  /\ earlier = NoVerdict
  /\ verdict = NoVerdict \/ (~verdict.threw /\ Follows(verdict.fn, v.fn))
  /\ earlier' = verdict
  /\ verdict' = v
  /\ UNCHANGED << req, pc, uid, step, partial, analyses, prediction, docRef, calls,
                  res, firestore, clock, nextId, overlap, outcome, fan, topics,
                  signal, auth, queue >>

ApplyExtractMarketSize ==
  Apply(IF ReadsMissingMetadata(signal[1])
          THEN Thrown("extractMarketSize")
          ELSE Returned("extractMarketSize", extractMarketSize(signal[1])))

ApplyExtractKeyFactors ==
  Apply(Returned("extractKeyFactors", extractKeyFactors(signal[1])))

ApplyCalculateMatchScore ==
  Apply(Returned("calculateMatchScore", calculateMatchScore(signal[1], signal[2])))

ApplyCalculateReadinessScore ==
  Apply(Returned("calculateReadinessScore",
                 calculateReadinessScore(signal[1], signal[2], signal[3])))

ApplyAssessFinancialReadiness ==
  Apply(IF ReadsMissingMetadata(signal[2])
          THEN Thrown("assessFinancialReadiness")
          ELSE Returned("assessFinancialReadiness", assessFinancialReadiness(signal[2])))

\* The idea is the analysis without entities; market and competition are any.
ApplySwot ==
  Apply(Returned("swot", Swot(signal[3], signal[1], signal[2])))

ApplyAnalyzeStructure ==
  Apply(Returned("analyzeStructure", analyzeStructure(signal[1])))

ApplyGenerateEntryStrategy ==
  Apply(Returned("generateEntryStrategy", generateEntryStrategy(signal[1])))

ApplyGenerateFundingRecommendations ==
  Apply(Returned("generateFundingRecommendations",
                 generateFundingRecommendations(signal[1], signal[2])))

ApplyGenerateMarketRecommendations ==
  Apply(Returned("generateMarketRecommendations",
                 generateMarketRecommendations(signal[1], signal[2])))

ApplyAnalyzeTrends ==
  Apply(Returned("analyzeTrends", analyzeTrends(signal[1])))

ApplyGenerateActionPlan ==
  Apply(Returned("generateActionPlan", generateActionPlan(signal[1], signal[2])))

NextClassifier ==
  \/ ApplyAnalyzeTrends
  \/ ApplyGenerateActionPlan
  \/ ApplyGenerateEntryStrategy
  \/ ApplyGenerateFundingRecommendations
  \/ ApplyGenerateMarketRecommendations
  \/ ApplyExtractMarketSize
  \/ ApplyExtractKeyFactors
  \/ ApplyCalculateMatchScore
  \/ ApplyCalculateReadinessScore
  \/ ApplyAssessFinancialReadiness
  \/ ApplySwot
  \/ ApplyAnalyzeStructure

SpecClassifier == InitClassifier /\ [][NextClassifier]_vars

\* ------------------------------------------- accounts, startups and tasks

\* The e-mail addresses registered with, and the uid Firebase Auth gives the
\* user created for each.
Emails == {"e1", "e2", "e3"}

UidOf(email) ==
  CASE email = "e1" -> "u1"
    [] email = "e2" -> "u2"
    [] email = "e3" -> "u3"

\* collection('users').doc(uid)
UserPath(user) == Path("users", user, "", 0)

\* collection('startups').doc(id): one collection for the startups of all users.
StartupPath(id) == Path("startups", "", "", id)

\* doc.set(data): the document is created or replaced.
Set(db, path, data) == (path :> data) @@ db

\* doc.update(data) on an existing document.
Update(db, path, data) == [db EXCEPT ![path] = Merge(@, data)]

\* FieldValue.arrayUnion(x)
arrayUnion(array, x) ==
  IF \E i \in DOMAIN array : array[i] = x THEN array ELSE Append(array, x)

\* The profile document /register writes.
Profile(name, email, now) ==
  [name |-> name, email |-> email, createdAt |-> now,
   startups |-> << >>, skills |-> << >>, preferences |-> << >>]

\* The handler's catch block.
Fail(r) ==
  /\ res' = [res EXCEPT ![r] = ErrorResponse(req[r].route)]
  /\ pc' = [pc EXCEPT ![r] = "done"]

\* await admin.auth().createUser(..): rejects when the e-mail is taken.
CreateUser(r, ok) ==
  LET email == req[r].body.email
      created == ok /\ email \notin DOMAIN auth
  IN /\ pc[r] = "createUser"
     /\ calls' = [calls EXCEPT ![r] = Append(@, Call("auth", "createUser", email, created))]
     /\ IF created
          THEN /\ auth' = (email :> UidOf(email)) @@ auth
               /\ pc' = [pc EXCEPT ![r] = "setProfile"]
               /\ res' = res
          ELSE /\ Fail(r)
               /\ auth' = auth
     /\ UNCHANGED << req, uid, step, partial, analyses, prediction, docRef,
                     firestore, clock, nextId, overlap, outcome, fan, topics,
                     signal, verdict, earlier, queue >>

\* await ..collection('users').doc(userRecord.uid).set({..})
SetProfile(r, ok) ==
  LET email == req[r].body.email
      path == UserPath(auth[email])
  IN /\ pc[r] = "setProfile"
     /\ calls' = [calls EXCEPT ![r] = Append(@, Call("firestore", "set", path, ok))]
     /\ IF ok
          THEN /\ firestore' = Set(firestore, path,
                                   Profile(req[r].body.name, email, clock + 1))
               /\ clock' = clock + 1
               /\ pc' = [pc EXCEPT ![r] = "createToken"]
               /\ res' = res
          ELSE /\ Fail(r)
               /\ UNCHANGED << firestore, clock >>
     /\ UNCHANGED << req, uid, step, partial, analyses, prediction, docRef,
                     nextId, overlap, outcome, fan, topics,
                     signal, verdict, earlier, auth, queue >>

\* await admin.auth().createCustomToken(userRecord.uid), then res.json(..)
CreateToken(r, ok) ==
  LET email == req[r].body.email
  IN /\ pc[r] = "createToken"
     /\ calls' = [calls EXCEPT ![r] =
                    Append(@, Call("auth", "createCustomToken", email, ok))]
     /\ IF ok
          THEN /\ res' = [res EXCEPT ![r] =
                            [status |-> 200,
                             body |-> [token |-> auth[email],
                                       user |-> [uid |-> auth[email], email |-> email,
                                                 name |-> req[r].body.name]]]]
               /\ pc' = [pc EXCEPT ![r] = "done"]
          ELSE Fail(r)
     /\ UNCHANGED << req, uid, step, partial, analyses, prediction, docRef,
                     firestore, clock, nextId, overlap, outcome, fan, topics,
                     signal, verdict, earlier, auth, queue >>

\* await ..collection('users').doc(req.user.uid).get(), then 404 or the profile.
GetProfile(r, ok) ==
  LET path == UserPath(uid[r])
  IN /\ pc[r] = "getProfile"
     /\ calls' = [calls EXCEPT ![r] = Append(@, Call("firestore", "get", path, ok))]
     /\ IF ok
          THEN /\ res' = [res EXCEPT ![r] =
                            IF Exists(firestore, path)
                              THEN [status |-> 200, body |-> [profile |-> firestore[path]]]
                              ELSE [status |-> 404,
                                    body |-> [error |-> "User profile not found"]]]
               /\ pc' = [pc EXCEPT ![r] = "done"]
          ELSE Fail(r)
     /\ UNCHANGED << req, uid, step, partial, analyses, prediction, docRef,
                     firestore, clock, nextId, overlap, outcome, fan, topics,
                     signal, verdict, earlier, auth, queue >>

\* await ..collection('users').doc(req.user.uid).update({..}): rejects when
\* the document does not exist.
UpdateProfile(r, ok) ==
  LET path == UserPath(uid[r])
      updated == ok /\ Exists(firestore, path)
  IN /\ pc[r] = "updateProfile"
     /\ calls' = [calls EXCEPT ![r] = Append(@, Call("firestore", "update", path, updated))]
     /\ IF updated
          THEN /\ firestore' = Update(firestore, path,
                                      [name |-> req[r].body.name,
                                       skills |-> req[r].body.skills,
                                       preferences |-> req[r].body.preferences,
                                       updatedAt |-> clock + 1])
               /\ clock' = clock + 1
               /\ res' = [res EXCEPT ![r] =
                            [status |-> 200,
                             body |-> [message |-> "Profile updated successfully"]]]
               /\ pc' = [pc EXCEPT ![r] = "done"]
          ELSE /\ Fail(r)
               /\ UNCHANGED << firestore, clock >>
     /\ UNCHANGED << req, uid, step, partial, analyses, prediction, docRef,
                     nextId, overlap, outcome, fan, topics,
                     signal, verdict, earlier, auth, queue >>

\* { userId: req.user.uid, createdAt: .., ...req.body }: the body spread last.
StartupDataBodyLast(body, user, now) ==
  Merge([userId |-> user, createdAt |-> now], body)

\* { ...req.body, userId: req.user.uid, createdAt: serverTimestamp() }
StartupData(body, user, now) ==
  Merge(Merge(body, [userId |-> user]), [createdAt |-> now])

\* await ..collection('startups').add(startupData)
AddStartup(r, ok) ==
  LET path == StartupPath(nextId)
  IN /\ pc[r] = "addStartup"
     /\ calls' = [calls EXCEPT ![r] = Append(@, Call("firestore", "add", path, ok))]
     /\ IF ok
          THEN /\ firestore' = Add(firestore, path,
                                   StartupData(req[r].body, uid[r], clock + 1))
               /\ clock' = clock + 1
               /\ nextId' = nextId + 1
               /\ docRef' = [docRef EXCEPT ![r] = path]
               /\ pc' = [pc EXCEPT ![r] = "linkStartup"]
               /\ res' = res
          ELSE /\ Fail(r)
               /\ UNCHANGED << firestore, clock, nextId, docRef >>
     /\ UNCHANGED << req, uid, step, partial, analyses, prediction,
                     overlap, outcome, fan, topics,
                     signal, verdict, earlier, auth, queue >>

\* await ..doc(req.user.uid).update({ startups: arrayUnion(startupRef.id) }),
\* then res.json(..)
LinkStartup(r, ok) ==
  LET path == UserPath(uid[r])
      updated == ok /\ Exists(firestore, path)
  IN /\ pc[r] = "linkStartup"
     /\ calls' = [calls EXCEPT ![r] = Append(@, Call("firestore", "update", path, updated))]
     /\ IF updated
          THEN /\ firestore' = Update(firestore, path,
                                      [startups |-> arrayUnion(firestore[path].startups,
                                                               docRef[r].id)])
               /\ res' = [res EXCEPT ![r] =
                            [status |-> 200,
                             body |-> [startupId |-> docRef[r].id,
                                       message |-> "Startup saved successfully"]]]
               /\ pc' = [pc EXCEPT ![r] = "done"]
          ELSE /\ Fail(r)
               /\ firestore' = firestore
     /\ UNCHANGED << req, uid, step, partial, analyses, prediction, docRef,
                     clock, nextId, overlap, outcome, fan, topics,
                     signal, verdict, earlier, auth, queue >>

\* res.json({ startups }): after the last get of the loop.
StartupsResponse(startups) == [status |-> 200, body |-> [startups |-> startups]]

\* GET /startups, the get of the user document: userDoc.data() is undefined
\* when the document does not exist, and reading .startups throws.
GetUser(r, ok) ==
  LET path == UserPath(uid[r])
      read == ok /\ Exists(firestore, path)
      startupIds == firestore[path].startups
  IN /\ pc[r] = "getUser"
     /\ calls' = [calls EXCEPT ![r] = Append(@, Call("firestore", "get", path, ok))]
     /\ IF read
          THEN /\ partial' = [partial EXCEPT ![r] =
                                [startupIds |-> startupIds, startups |-> << >>]]
               /\ IF startupIds = << >>
                    THEN /\ res' = [res EXCEPT ![r] = StartupsResponse(<< >>)]
                         /\ pc' = [pc EXCEPT ![r] = "done"]
                    ELSE /\ res' = res
                         /\ pc' = [pc EXCEPT ![r] = "getStartup"]
          ELSE /\ Fail(r)
               /\ partial' = partial
     /\ UNCHANGED << req, uid, step, analyses, prediction, docRef,
                     firestore, clock, nextId, overlap, outcome, fan, topics,
                     signal, verdict, earlier, auth, queue >>

\* GET /startups, one turn of the loop: the get of the next startup document.
GetStartup(r, ok) ==
  LET startupIds == partial[r].startupIds
      path == StartupPath(startupIds[step[r] + 1])
      startups == IF Exists(firestore, path)
                    THEN Append(partial[r].startups,
                                Merge([id |-> path.id], firestore[path]))
                    ELSE partial[r].startups
  IN /\ pc[r] = "getStartup"
     /\ calls' = [calls EXCEPT ![r] = Append(@, Call("firestore", "get", path, ok))]
     /\ IF ok
          THEN /\ partial' = [partial EXCEPT ![r].startups = startups]
               /\ step' = [step EXCEPT ![r] = @ + 1]
               /\ IF step[r] + 1 = Len(startupIds)
                    THEN /\ res' = [res EXCEPT ![r] = StartupsResponse(startups)]
                         /\ pc' = [pc EXCEPT ![r] = "done"]
                    ELSE /\ res' = res
                         /\ pc' = pc
          ELSE /\ Fail(r)
               /\ UNCHANGED << partial, step >>
     /\ UNCHANGED << req, uid, analyses, prediction, docRef,
                     firestore, clock, nextId, overlap, outcome, fan, topics,
                     signal, verdict, earlier, auth, queue >>

\* The payload of the task a schedule route creates.
Payload(route, user, body) ==
  IF route = "/schedule-market-analysis"
  THEN [type |-> "market_analysis",
        data |-> [userId |-> user, industry |-> body.industry,
                  competitors |-> body.competitors, metrics |-> body.metrics]]
  ELSE [type |-> "image_generation",
        data |-> [userId |-> user, prompt |-> body.prompt,
                  style |-> body.style, dimensions |-> body.dimensions]]

\* await createTask(queuePath, payload) resolves or rejects. After it resolves
\* the handler evaluates admin.firestore(), and admin is not declared in the
\* module: the ReferenceError is caught and answered 500, as a rejection is.
Schedule(r, ok) ==
  LET payload == Payload(req[r].route, uid[r], req[r].body)
  IN /\ pc[r] = "createTask"
     /\ calls' = [calls EXCEPT ![r] = Append(@, Call("tasks", "createTask", payload.type, ok))]
     /\ queue' = IF ok THEN Append(queue, payload) ELSE queue
     /\ Fail(r)
     /\ UNCHANGED << req, uid, step, partial, analyses, prediction, docRef,
                     firestore, clock, nextId, overlap, outcome, fan, topics,
                     signal, verdict, earlier, auth >>

\* GET /task-status/:taskId: admin.firestore() throws the ReferenceError
\* before anything is read.
TaskStatus(r) ==
  /\ pc[r] = "taskStatus"
  /\ Fail(r)
  /\ UNCHANGED << req, uid, step, partial, analyses, prediction, docRef, calls,
                  firestore, clock, nextId, overlap, outcome, fan, topics,
                  signal, verdict, earlier, auth, queue >>

\* The routes of the account, startup and task routers, and the bodies sent.
AccountRoutes ==
  {"/register", "GET /profile", "PUT /profile", "/startup", "GET /startups",
   "/schedule-market-analysis", "/schedule-image-generation", "GET /task-status"}

AccountBodies(route) ==
  CASE route = "/register" ->
         {[email |-> e, name |-> "n1"] : e \in {"e1", "e3"}}
    [] route = "PUT /profile" ->
         {[name |-> "n2", skills |-> << "k1" >>, preferences |-> << >>]}
    [] route = "/startup" ->
         {[name |-> "s1"], [name |-> "s2", userId |-> "u2"]}
    [] route = "/schedule-market-analysis" ->
         {[industry |-> "t1", competitors |-> "t2", metrics |-> "t1"]}
    [] route = "/schedule-image-generation" ->
         {[prompt |-> "t1", style |-> "t2", dimensions |-> "t1"]}
    [] route = "GET /task-status" ->
         {[taskId |-> 1, type |-> "market_analysis"]}
    [] OTHER -> {<< >>}

\* Two users have registered; the second has saved a startup.
InitAccount ==
  /\ req = [r \in Reqs |-> Idle]
  /\ pc = [r \in Reqs |-> "idle"]
  /\ uid = [r \in Reqs |-> NoUser]
  /\ step = [r \in Reqs |-> 0]
  /\ partial = [r \in Reqs |-> << >>]
  /\ analyses = [r \in Reqs |-> << >>]
  /\ prediction = [r \in Reqs |-> NoPrediction]
  /\ docRef = [r \in Reqs |-> NoDoc]
  /\ calls = [r \in Reqs |-> << >>]
  /\ res = [r \in Reqs |-> NoResponse]
  /\ auth = ("e1" :> "u1") @@ ("e2" :> "u2")
  /\ firestore = (UserPath("u1") :> Profile("n1", "e1", 0))
                 @@ (UserPath("u2") :> [Profile("n1", "e2", 0) EXCEPT !.startups = << 1 >>])
                 @@ (StartupPath(1) :> StartupData([name |-> "s0"], "u2", 0))
  /\ clock = 0
  /\ nextId = 2
  /\ overlap = [r \in Reqs |-> {}]
  /\ outcome = << >>
  /\ fan = [r \in Reqs |-> << >>]
  /\ topics = << >>
  /\ queue = << >>
  /\ signal = << >>
  /\ verdict = NoVerdict
  /\ earlier = NoVerdict

SubmitAccount(r) ==
  \E route \in AccountRoutes, token \in Users :
    \E body \in AccountBodies(route) :
      Arrive(r, route, token, body, NoFile)

NextAccount ==
  \E r \in Reqs :
    \/ SubmitAccount(r)
    \/ verifyToken(r)
    \/ \E ok \in BOOLEAN :
         \/ CreateUser(r, ok)
         \/ SetProfile(r, ok)
         \/ CreateToken(r, ok)
         \/ GetProfile(r, ok)
         \/ UpdateProfile(r, ok)
         \/ AddStartup(r, ok)
         \/ LinkStartup(r, ok)
         \/ GetUser(r, ok)
         \/ GetStartup(r, ok)
         \/ Schedule(r, ok)
    \/ TaskStatus(r)

SpecAccount == InitAccount /\ [][NextAccount]_vars

\* ------------------------------------------------------------------ claims

\* A call of the request was rejected by its backend.
SomeCallFailed(r) == \E i \in DOMAIN calls[r] : ~calls[r][i].ok

\* C1: in a route that analyses several texts (/analyze), once any backend
\* analysis call has failed the request is answered 500 with the route's static
\* message and nothing else: the body holds the error field alone, no field
\* derived from the texts whose analysis succeeded.
C1_FailureIsStatic500 ==
  \A r \in Reqs :
    (req[r].route = "/analyze" /\ SomeCallFailed(r)) =>
      /\ pc[r] = "done"
      /\ res[r].status = 500
      /\ DOMAIN res[r].body = {"error"}
      /\ res[r].body.error = "Failed to analyze market"

\* C1 witness: an /analyze request failed after at least one text was analysed.
C1_Witness ==
  \E r \in Reqs :
    /\ req[r].route = "/analyze"
    /\ SomeCallFailed(r)
    /\ Len(analyses[r]) >= 1
    /\ res[r].status = 500

\* C2: no call to the NLP backend, the LLM backend or the persistence layer is
\* issued for a request before the identity check has resolved a user id for it.
C2_NoCallBeforeIdentity ==
  \A r \in Reqs : calls[r] # << >> => uid[r] \in Users

\* The request's Firestore write was issued and resolved.
WriteResolved(r) ==
  \E i \in DOMAIN calls[r] : calls[r][i].api = "firestore" /\ calls[r][i].ok

\* The request's Firestore write was issued and rejected.
WriteRejected(r) ==
  \E i \in DOMAIN calls[r] : calls[r][i].api = "firestore" /\ ~calls[r][i].ok

\* C3: an LLM route (/analyze-idea, /generate-pitch, /analyze-resume) sends its
\* success response, which carries the generated result, only after its
\* persistence write has resolved; when the write is rejected the response is a
\* 500 whose body is the static error message alone.
C3_ResponseAfterWrite ==
  \A r \in Reqs :
    req[r].route \in LlmRoutes =>
      /\ res[r].status = 200 =>
           /\ WriteResolved(r)
           /\ prediction[r] \in Predictions
           /\ IF req[r].route = "/generate-pitch"
                THEN res[r].body.content = prediction[r]
                ELSE res[r].body.analysis = prediction[r]
      /\ WriteRejected(r) =>
           /\ res[r].status = 500
           /\ DOMAIN res[r].body = {"error"}
           /\ res[r].body.error \in {"Failed to analyze startup idea",
                                     "Failed to generate pitch deck",
                                     "Failed to analyze resume"}

\* C3 witness: a result was generated, its write was rejected, the answer is a 500.
C3_Witness ==
  \E r \in Reqs :
    /\ req[r].route \in LlmRoutes
    /\ prediction[r] \in Predictions
    /\ WriteRejected(r)
    /\ res[r].status = 500

SameSubmission(r, q) ==
  /\ r # q
  /\ req[r].route = req[q].route
  /\ req[r].body = req[q].body
  /\ req[r].file = req[q].file
  /\ uid[r] = uid[q]
  /\ res[r].status = 200
  /\ res[q].status = 200

Concurrent(r, q) ==
  /\ r # q
  /\ q \in overlap[r]
  /\ uid[r] = uid[q]
  /\ req[r].route = req[q].route
  /\ res[r].status = 200
  /\ res[q].status = 200

Issued(c) == << c.api, c.method, c.field >>

\* C8: within one request no external call (an NLP method for a text field,
\* the predict call, the Firestore write) is issued twice, and a call that
\* failed is the last call the request issued.
C8_OnceAndNoneAfterFailure ==
  \A r \in Reqs :
    /\ \A i, j \in DOMAIN calls[r] :
         i # j => Issued(calls[r][i]) # Issued(calls[r][j])
    /\ \A i \in DOMAIN calls[r] : ~calls[r][i].ok => i = Len(calls[r])
    /\ pc[r] = "done" => (SomeCallFailed(r) <=> res[r].status = 500)

\* C8 witness: a /guidance request whose sixth call failed, and was its last.
C8_Witness ==
  \E r \in Reqs :
    /\ req[r].route = "/guidance"
    /\ pc[r] = "done"
    /\ Len(calls[r]) = 6
    /\ ~calls[r][6].ok

\* The calls a successful request of an NLP route has issued, in order: every
\* method of the helper for every text field of the body.
ExpectedCalls(route) ==
  [k \in 1 .. Len(Fields(route)) * Len(Methods(route)) |->
     Call("language",
          Methods(route)[((k - 1) % Len(Methods(route))) + 1],
          Fields(route)[((k - 1) \div Len(Methods(route))) + 1],
          TRUE)]

\* C9: of two requests to an NLP route with identical input that both
\* succeeded, each has issued the full set of backend analysis calls itself,
\* and both got the same answer.
C9_EachRequestCallsInFull ==
  \A r, q \in Reqs :
    ( /\ r # q
      /\ req[r].route \in NlpRoutes
      /\ req[r].route = req[q].route
      /\ req[r].body = req[q].body
      /\ res[r].status = 200
      /\ res[q].status = 200 ) =>
        /\ calls[r] = ExpectedCalls(req[r].route)
        /\ calls[q] = ExpectedCalls(req[q].route)
        /\ res[r] = res[q]

\* C9 witness: two /idea-check requests with the same idea have both succeeded.
C9_Witness ==
  \E r, q \in Reqs :
    /\ r < q
    /\ req[r].route = "/idea-check"
    /\ req[q].route = "/idea-check"
    /\ req[r].body = req[q].body
    /\ res[r].status = 200
    /\ res[q].status = 200
    /\ Len(calls[q]) = 4

\* C10: for a request that analyses several text fields, whatever the backend
\* does with the calls for each field, the handler that analyses the fields one
\* after the other and one that analyses them side by side, in any
\* interleaving, send the same response: 200 with the combined analysis when
\* no call rejects, the static 500 otherwise.
C10_SameResponseEitherWay ==
  (pc[1] = "done" /\ pc[2] = "done" /\ fan[2] # << >>) =>
    /\ res[2] = res[1]
    /\ res[1].status = (IF \A f \in DOMAIN outcome : outcome[f] = 0 THEN 200 ELSE 500)

\* C10 witness: the calls for the first field all resolve and one for the third
\* rejects; side by side the third was rejected before the first had finished,
\* and both handlers have answered; in turn, the first field's calls were all
\* issued before the rejection.
C10_Witness ==
  /\ pc[1] = "done"
  /\ pc[2] = "done"
  /\ fan[2] # << >>
  /\ outcome[1] = 0
  /\ outcome[3] # 0
  /\ fan[2][3].rejected
  /\ fan[2][1].step < Len(Methods(FanOutRoute))
  /\ Len(calls[1]) > 2 * Len(Methods(FanOutRoute))
\* The response the handler of an NLP route sends to request r when it is the
\* only request: what the handler computes from the request's own token and
\* body and the outcomes of its own calls.
ResponseAlone(r) ==
  LET route == req[r].route
  IN IF RequiresToken(route) /\ req[r].token \notin Users THEN Unauthorized
     ELSE IF SomeCallFailed(r) THEN ErrorResponse(route)
     ELSE [status |-> 200,
           body |-> NlpBody(route,
                      [f \in DOMAIN Fields(route) |->
                         Assemble(route,
                           [m \in DOMAIN Methods(route) |->
                              LanguageResult(Methods(route)[m], req[r].body[f])])])]

\* C11: in any interleaving of concurrently handled requests to an analysis
\* route, the response to each request is the one it gets when handled alone:
\* it depends on the request's own input and the outcomes of its own calls only.
C11_ResponseAsIfAlone ==
  \A r \in Reqs :
    (pc[r] = "done" /\ req[r].route \in NlpRoutes) => res[r] = ResponseAlone(r)

\* C11 witness: two overlapping /competitors requests with different bodies
\* have both been answered 200.
C11_Witness ==
  \E r, q \in Reqs :
    /\ r < q
    /\ q \in overlap[r]
    /\ req[r].body # req[q].body
    /\ res[q].status = 200
    /\ res[r].status = 200
\* The request lacks a field its route requires, or has it empty.
LacksRequired(r) ==
  CASE req[r].route = "/analyze-idea"     -> req[r].body[1] \in {Missing, ""}
    [] req[r].route = "/publish-analysis" -> req[r].body[1] \in {Missing, ""}
    [] req[r].route = "/analyze-resume"   -> req[r].file = NoFile
    [] OTHER -> FALSE

\* C12: a request in which a required field is missing or empty (the type of
\* /publish-analysis, the idea of /analyze-idea, the file of /analyze-resume)
\* is answered with a 400, never with a 500 and never with a success.
C12_LackingFieldIs400 ==
  \A r \in Reqs : (pc[r] = "done" /\ LacksRequired(r)) => res[r].status = 400
\* C13: applied to a well-formed analysis (entities with name, type, salience
\* and sentiment), NUMBER entities included, no heuristic function throws.
C13_NoFunctionThrows == ~verdict.threw

\* C14: the match score and the readiness score lie in [0, 100] (0 .. 10000
\* hundredths), whatever the sentiments and the entity lists.
C14_ScoresWithinBounds ==
  verdict.fn \in {"calculateMatchScore", "calculateReadinessScore"}
    => verdict.value \in 0 .. 10000

\* The most positive pitch with matching entities: the sum exceeds 100 and
\* the score returned is 100.
C14_Witness ==
  /\ verdict.fn = "calculateMatchScore"
  /\ signal[1].sentiment.score = 100
  /\ signal[1].entities # << >>
  /\ signal[2].entities = signal[1].entities
  /\ verdict.value = 10000

\* The /swot result of three analyses without entities.
EmptyEntitySwot ==
  /\ verdict.fn = "swot"
  /\ \A k \in 1 .. 3 : signal[k].entities = << >>

ThreeSaliences ==
  /\ verdict.fn = "extractKeyFactors"
  /\ signal[1].sentiment.score = 50
  /\ Len(signal[1].entities) = 3
  /\ signal[1].entities[1].salience = 50
  /\ signal[1].entities[2].salience = 25
  /\ signal[1].entities[3].salience = 5

\* C16 as stated: with document sentiment 0.5 and entities of salience 0.5,
\* 0.25 and 0.05 the key factors are exactly the first two entities.
C16_FirstTwoEntities ==
  ThreeSaliences =>
    /\ Len(verdict.value) = 2
    /\ \A i \in 1 .. 2 : verdict.value[i].factor = signal[1].entities[i].name

\* C16 as the code has it: with document sentiment 0.5 and entities of
\* salience 0.5, 0.25 and 0.05 the key factors are exactly the first entity,
\* the only one of salience above 0.3.
C16_FirstEntityOnly ==
  ThreeSaliences =>
    /\ Len(verdict.value) = 1
    /\ verdict.value[1].factor = signal[1].entities[1].name
    /\ verdict.value[1].importance = 50

C16_Witness ==
  /\ ThreeSaliences
  /\ ~verdict.threw
  /\ Len(verdict.value) = 1

\* The lower-cased names of an entity list, as a set.
LowerNames(analysis) ==
  {toLowerCase(analysis.entities[i].name) : i \in DOMAIN analysis.entities}

\* C17: the match score is min(100, (pitch sentiment + 1) * 50 + 10 for each
\* name the pitch's and the requirements' entity lists share, compared
\* case-insensitively and counted once however often it occurs in a list).
C17_EachSharedNameOnce ==
  verdict.fn = "calculateMatchScore" =>
    verdict.value
      = Min(10000, (signal[1].sentiment.score + 100) * 50
                   + 1000 * Cardinality(LowerNames(signal[1]) \cap LowerNames(signal[2])))

\* Names of the list that are equal once lower-cased.
HasRepeatedName(analysis) ==
  \E i, j \in DOMAIN analysis.entities :
    /\ i # j
    /\ toLowerCase(analysis.entities[i].name) = toLowerCase(analysis.entities[j].name)

C19_MostNegativeContributesZero ==
  /\ ( verdict.fn = "calculateReadinessScore" /\ signal[2].sentiment.score = -100 )
       => /\ verdict.value = (signal[1].sentiment.score + 100) * 20
                             + (signal[3].sentiment.score + 100) * 10
          /\ verdict.value >= 0
  /\ ( verdict.fn = "assessFinancialReadiness" /\ ~verdict.threw
       /\ signal[2].sentiment.score = -100 )
       => verdict.value.score = 0

\* The readiness score of a most negative financial analysis beside a most
\* positive business and a neutral team.
C19_Witness ==
  /\ verdict.fn = "calculateReadinessScore"
  /\ signal[2].sentiment.score = -100
  /\ signal[1].sentiment.score = 100
  /\ signal[3].sentiment.score = 0
  /\ verdict.value = 5000

\* C20: with zero sentences in the syntax analysis, analyzeStructure does not
\* throw and its average sentence length is a defined number, not NaN.
C20_NoSentencesDefinedAverage ==
  ( verdict.fn = "analyzeStructure" /\ signal[1].syntax.sentences = << >> )
    => /\ ~verdict.threw
       /\ verdict.value.averageLength.kind = "number"

\* The list of recommendations holds the text.
Recommends(list, text) == \E i \in DOMAIN list : list[i] = Fixed(text)

\* C21: a verdict derived from the document sentiment is the aggressive or
\* institutional-investment outcome only when the score is above 0.3 and the
\* conservative or bootstrap-first outcome only when it is below 0; for a
\* score in [0, 0.3] neither is produced (funding recommendations, market
\* recommendations, market-entry approach).
C21_NeitherOutcomeBetween ==
  LET score == signal[1].sentiment.score
  IN /\ verdict.fn = "generateFundingRecommendations" =>
          /\ Recommends(verdict.value, "Ready for institutional investment")
               => score > 30
          /\ Recommends(verdict.value, "Consider bootstrapping or angel investment first")
               => score < 0
     /\ verdict.fn = "generateMarketRecommendations" =>
          /\ Recommends(verdict.value, "Consider aggressive market entry strategies")
               => score > 30
          /\ Recommends(verdict.value, "Focus on niche market segments initially")
               => score < 0
     /\ verdict.fn = "generateEntryStrategy" =>
          /\ verdict.value.approach = "Aggressive" => score > 30
          /\ verdict.value.approach = "Conservative" => score < 0

\* C22: for every entity list, the entities the salience > 0.3 filter selects
\* (the key factors) are among those the salience > 0.2 filter selects (the
\* trends) from the same list.
C22_KeyFactorsAmongTrends ==
  ( earlier.fn = "extractKeyFactors" /\ verdict.fn = "analyzeTrends" ) =>
    {<< earlier.value[i].factor, earlier.value[i].importance >> :
       i \in DOMAIN earlier.value}
      \subseteq {<< verdict.value[i].trend, verdict.value[i].confidence >> :
                   i \in DOMAIN verdict.value}

\* Both filters applied to a list of which the first selects some entity
\* and the second one more.
C22_Witness ==
  /\ earlier.fn = "extractKeyFactors"
  /\ verdict.fn = "analyzeTrends"
  /\ Len(earlier.value) > 0
  /\ Len(verdict.value) > Len(earlier.value)

C24_UserIdIsAuthenticated ==
  /\ \A i \in DOMAIN topics :
       \E r \in Reqs : /\ req[r].route \in PubSubRoutes
                       /\ topics[i].data.userId = uid[r]
  /\ \A p \in DOMAIN firestore :
       "userId" \in DOMAIN firestore[p] =>
         \E r \in Reqs : docRef[r] = p /\ firestore[p].userId = uid[r]

\* C28: a /publish-analysis request whose type names none of the configured
\* topics is answered 400 'Invalid analysis type', publishes no message and
\* stores no record.
C28_UnmappedTypeIs400 ==
  \A r \in Reqs :
    ( /\ pc[r] = "done"
      /\ req[r].route = "/publish-analysis"
      /\ uid[r] \in Users
      /\ ~HasTopic(req[r].body[1]) )
      => /\ res[r] = InvalidType
         /\ \A i \in DOMAIN calls[r] : calls[r][i].api # "pubsub"
         /\ docRef[r] = NoDoc

\* The document a Firestore call of user's request addresses is the user's
\* own: it lies under the user's id, or it is a startup whose userId is the
\* user's (an add that was rejected created no document).
OwnDocument(user, c) ==
  IF c.field.collection = "startups"
    THEN \/ c.method = "add" /\ ~c.ok
         \/ Exists(firestore, c.field) /\ firestore[c.field].userId = user
    ELSE c.field.user = user

\* C25: every Firestore read and write made while handling a request of an
\* authenticated user addresses a document of that user, and the profile and
\* the startups returned to the user are the user's own.
C25_OnlyOwnDocuments ==
  \A r \in Reqs :
    uid[r] \in Users =>
      /\ \A i \in DOMAIN calls[r] :
           calls[r][i].api = "firestore" => OwnDocument(uid[r], calls[r][i])
      /\ ( req[r].route = "GET /startups" /\ res[r].status = 200 ) =>
           \A i \in DOMAIN res[r].body.startups :
             res[r].body.startups[i].userId = uid[r]
      /\ ( req[r].route = "GET /profile" /\ res[r].status = 200 ) =>
           auth[res[r].body.profile.email] = uid[r]

\* u1 saved a startup and was returned it by GET /startups, while the
\* startup of u2 is in the same collection.
C25_Witness ==
  \E r \in Reqs :
    /\ req[r].route = "GET /startups"
    /\ uid[r] = "u1"
    /\ res[r].status = 200
    /\ Len(res[r].body.startups) = 1
    /\ Exists(firestore, StartupPath(1))
    /\ firestore[StartupPath(1)].userId = "u2"

\* The createUser call of request r resolved: an auth user was created.
CreatedUser(r) ==
  \E i \in DOMAIN calls[r] : calls[r][i].method = "createUser" /\ calls[r][i].ok

\* C26: after a /register request completes, the auth user of the e-mail was
\* created if and only if the profile document exists and the token was
\* returned; a 500 response implies that no auth user was created.
C26_UserIffProfileAndToken ==
  \A r \in Reqs :
    ( pc[r] = "done" /\ req[r].route = "/register" ) =>
      /\ CreatedUser(r) <=>
           ( /\ req[r].body.email \in DOMAIN auth
             /\ Exists(firestore, UserPath(UidOf(req[r].body.email)))
             /\ res[r].status = 200 )
      /\ res[r].status = 500 => ~CreatedUser(r)

\* The createTask call of request r resolved: the task is in the queue.
Enqueued(r) ==
  \E i \in DOMAIN calls[r] : calls[r][i].method = "createTask" /\ calls[r][i].ok

\* C27: for the two schedule routes a task is enqueued if and only if a task
\* reference of status 'scheduled' is stored for the user and the taskName is
\* returned; a 500 response implies that no task was enqueued.
C27_EnqueuedIffStored ==
  \A r \in Reqs :
    ( /\ pc[r] = "done"
      /\ req[r].route \in {"/schedule-market-analysis", "/schedule-image-generation"}
      /\ uid[r] \in Users ) =>
      /\ Enqueued(r) <=>
           ( /\ docRef[r] # NoDoc
             /\ Exists(firestore, docRef[r])
             /\ res[r].status = 200 )
      /\ res[r].status = 500 => ~Enqueued(r)

\* The startups array of user's profile (empty when there is no profile).
StartupsOf(user) ==
  IF Exists(firestore, UserPath(user)) THEN firestore[UserPath(user)].startups ELSE << >>

InArray(array, x) == \E i \in DOMAIN array : array[i] = x

\* C29: when every /startup request received has completed, every startup
\* document of userId u is listed in u's startups array, and every id in u's
\* array names an existing startup document of userId u.
C29_StartupsMatchArray ==
  ( \A r \in Reqs : req[r].route = "/startup" => pc[r] = "done" ) =>
    /\ \A p \in DOMAIN firestore :
         p.collection = "startups" => InArray(StartupsOf(firestore[p].userId), p.id)
    /\ \A u \in Users : \A i \in DOMAIN StartupsOf(u) :
         /\ Exists(firestore, StartupPath(StartupsOf(u)[i]))
         /\ firestore[StartupPath(StartupsOf(u)[i])].userId = u

====
